---- MODULE Spec2Model ----
(***************************************************************************)
(* A model of walk001.py: a 2D discrete random walk that is generated by   *)
(* a fixed-count loop and then drawn as a scatter plot with a start and an *)
(* end marker.  The script is straight-line module-level code around one   *)
(* function, random_walk(), which mutates the globals x, y, x_pos, y_pos.  *)
(*                                                                         *)
(* Python lists are modelled as sequences, so the list index k (0-based)   *)
(* is the sequence index k+1, and x[-1] is x[Len(x)].  Python integers are *)
(* unbounded, so no width is modelled.                                     *)
(***************************************************************************)
EXTENDS Integers, Sequences, FiniteSets

\* Largest step count explored by the single-run specification Spec.
MaxN == 3

\* Largest step count explored by the repeated-run specification SpecRuns.
MaxNRuns == 2

VARIABLES
    pc,            \* position in the module-level code
    num_of_walks,  \* the step count (line 28)
    x,             \* x-history (line 9)
    y,             \* y-history (line 10)
    x_pos,         \* current position, x (line 12)
    y_pos,         \* current position, y (line 12)
    i,             \* iterations of the for loop completed (line 31)
    draws,         \* history: the pairs <<x_move, y_move>> drawn so far
    steps,         \* history: number of calls of random_walk() so far
    scatters,      \* the ax.scatter calls made so far, in order
    shown,         \* plt.show() has been reached
    finished       \* history: what the previous run of the script recorded

vars == <<pc, num_of_walks, x, y, x_pos, y_pos, i, draws, steps, scatters,
          shown, finished>>

\* normal_dot_size = 5
normal_dot_size == 5

\* A variant of randrange that includes stop, as random.randint does.
randrangeInclusive(start, stop) == start..stop

\* random.randrange(start, stop): an integer of range(start, stop), stop excluded.
randrange(start, stop) == start..(stop - 1)

\* range(n) as the sequence 0, 1, ..., n-1.
range(n) == [k \in 1..n |-> k - 1]

----------------------------------------------------------------------------
(* The process before any statement has run.  The globals do not exist yet; *)
(* they are given placeholder values that ModuleInit overwrites.            *)
Init ==
    /\ pc = "start"
    /\ num_of_walks = 0
    /\ x = <<>>
    /\ y = <<>>
    /\ x_pos = 0
    /\ y_pos = 0
    /\ i = 0
    /\ draws = <<>>
    /\ steps = 0
    /\ scatters = <<>>
    /\ shown = FALSE
    /\ finished = <<>>

\* A variant of ModuleInit that seeds the histories with the start, x = [0], y = [0].
ModuleInitWithStart(maxN) ==
    /\ pc = "start"
    /\ x' = <<0>>
    /\ y' = <<0>>
    /\ x_pos' = 0
    /\ y_pos' = 0
    /\ num_of_walks' \in 0..maxN
    /\ i' = 0
    /\ draws' = <<>>
    /\ steps' = 0
    /\ scatters' = <<>>
    /\ shown' = FALSE
    /\ pc' = "loop"
    /\ UNCHANGED finished

\* A variant of ModuleInit that forgets to reset the current position.
ModuleInitStalePos(maxN) ==
    /\ pc = "start"
    /\ x' = <<>>
    /\ y' = <<>>
    /\ UNCHANGED <<x_pos, y_pos>>
    /\ num_of_walks' \in 0..maxN
    /\ i' = 0
    /\ draws' = <<>>
    /\ steps' = 0
    /\ scatters' = <<>>
    /\ shown' = FALSE
    /\ pc' = "loop"
    /\ UNCHANGED finished

(* Lines 9-12 and 28-29: the globals are created, x = [], y = [],           *)
(* x_pos = y_pos = 0, and the step count is set.  The source fixes          *)
(* num_of_walks = 300000; the model explores every count in 0..maxN.        *)
ModuleInit(maxN) ==
    /\ pc = "start"
    /\ x' = <<>>
    /\ y' = <<>>
    /\ x_pos' = 0
    /\ y_pos' = 0
    /\ num_of_walks' \in 0..maxN
    /\ i' = 0
    /\ draws' = <<>>
    /\ steps' = 0
    /\ scatters' = <<>>
    /\ shown' = FALSE
    /\ pc' = "loop"
    /\ UNCHANGED finished

\* A variant of random_walk that appends both coordinates to x.
random_walkAppendBothToX ==
    \E x_move \in randrange(-1, 2) :
      \E y_move \in randrange(-1, 2) :
        /\ x_pos' = x_pos + x_move
        /\ y_pos' = y_pos + y_move
        /\ x' = Append(Append(x, x_pos'), y_pos')
        /\ y' = y
        /\ draws' = Append(draws, <<x_move, y_move>>)
        /\ steps' = steps + 1

\* A variant of random_walk that records the position before moving.
random_walkRecordBeforeMove ==
    \E x_move \in randrange(-1, 2) :
      \E y_move \in randrange(-1, 2) :
        /\ x' = Append(x, x_pos)
        /\ y' = Append(y, y_pos)
        /\ x_pos' = x_pos + x_move
        /\ y_pos' = y_pos + y_move
        /\ draws' = Append(draws, <<x_move, y_move>>)
        /\ steps' = steps + 1

\* A variant of random_walk that inserts the new position at the front.
random_walkInsertFront ==
    \E x_move \in randrange(-1, 2) :
      \E y_move \in randrange(-1, 2) :
        /\ x_pos' = x_pos + x_move
        /\ y_pos' = y_pos + y_move
        /\ x' = <<x_pos'>> \o x
        /\ y' = <<y_pos'>> \o y
        /\ draws' = Append(draws, <<x_move, y_move>>)
        /\ steps' = steps + 1

\* A variant of random_walk that assigns the move (=) instead of adding it (+=).
random_walkAssign ==
    \E x_move \in randrange(-1, 2) :
      \E y_move \in randrange(-1, 2) :
        /\ x_pos' = x_move
        /\ y_pos' = y_move
        /\ x' = Append(x, x_pos')
        /\ y' = Append(y, y_pos')
        /\ draws' = Append(draws, <<x_move, y_move>>)
        /\ steps' = steps + 1

(* random_walk(), lines 15-26: draw x_move and y_move, add them to the      *)
(* current position, append the new position to the histories.              *)
random_walk ==
    \E x_move \in randrange(-1, 2) :
      \E y_move \in randrange(-1, 2) :
        /\ x_pos' = x_pos + x_move
        /\ y_pos' = y_pos + y_move
        /\ x' = Append(x, x_pos')
        /\ y' = Append(y, y_pos')
        /\ draws' = Append(draws, <<x_move, y_move>>)
        /\ steps' = steps + 1

\* A variant of LoopContinues that runs the loop once more.
LoopContinuesOffByOne == i <= num_of_walks

\* for _ in range(num_of_walks): the iterator still yields a value.
LoopContinues == i < num_of_walks

\* Lines 31-32: one iteration of the loop.
LoopStep ==
    /\ pc = "loop"
    /\ LoopContinues
    /\ random_walk
    /\ i' = i + 1
    /\ UNCHANGED <<pc, num_of_walks, scatters, shown, finished>>

(* Lines 31, 34-35: the iterator is exhausted; the style is set and the     *)
(* figure and axes are created.                                             *)
LoopExit ==
    /\ pc = "loop"
    /\ ~LoopContinues
    /\ pc' = "scatter_path"
    /\ UNCHANGED <<num_of_walks, x, y, x_pos, y_pos, i, draws, steps,
                   scatters, shown, finished>>

\* Line 36: the whole path, coloured along YlGnBu by c = range(num_of_walks).
ScatterPath ==
    /\ pc = "scatter_path"
    /\ scatters' = Append(scatters,
                     [xs |-> x, ys |-> y, c |-> range(num_of_walks),
                      color |-> "YlGnBu", s |-> normal_dot_size])
    /\ pc' = "scatter_start"
    /\ UNCHANGED <<num_of_walks, x, y, x_pos, y_pos, i, draws, steps, shown,
                   finished>>

\* Line 39: the start marker at the literal point (0, 0).
ScatterStart ==
    /\ pc = "scatter_start"
    /\ scatters' = Append(scatters,
                     [xs |-> <<0>>, ys |-> <<0>>, c |-> <<>>, color |-> "green",
                      s |-> normal_dot_size * 6])
    /\ pc' = "scatter_end"
    /\ UNCHANGED <<num_of_walks, x, y, x_pos, y_pos, i, draws, steps, shown,
                   finished>>

\* A variant of ScatterEnd that reads the first element, x[0] and y[0].
ScatterEndFirst ==
    /\ pc = "scatter_end"
    /\ IF Len(x) = 0 \/ Len(y) = 0
         THEN /\ pc' = "error"
              /\ UNCHANGED scatters
         ELSE /\ scatters' = Append(scatters,
                               [xs |-> <<x[1]>>, ys |-> <<y[1]>>,
                                c |-> <<>>, color |-> "red",
                                s |-> normal_dot_size * 6])
              /\ pc' = "show"
    /\ UNCHANGED <<num_of_walks, x, y, x_pos, y_pos, i, draws, steps, shown,
                   finished>>

\* A variant of ScatterEnd that skips the end marker when the path is empty.
ScatterEndGuarded ==
    /\ pc = "scatter_end"
    /\ IF Len(x) = 0 \/ Len(y) = 0
         THEN UNCHANGED scatters
         ELSE scatters' = Append(scatters,
                            [xs |-> <<x[Len(x)]>>, ys |-> <<y[Len(y)]>>,
                             c |-> <<>>, color |-> "red",
                             s |-> normal_dot_size * 6])
    /\ pc' = "show"
    /\ UNCHANGED <<num_of_walks, x, y, x_pos, y_pos, i, draws, steps, shown,
                   finished>>

(* Line 40: the end marker at (x[-1], y[-1]).  The arguments are evaluated  *)
(* first: on an empty list x[-1] raises IndexError, which nothing catches.  *)
ScatterEnd ==
    /\ pc = "scatter_end"
    /\ IF Len(x) = 0 \/ Len(y) = 0
         THEN /\ pc' = "error"
              /\ UNCHANGED scatters
         ELSE /\ scatters' = Append(scatters,
                               [xs |-> <<x[Len(x)]>>, ys |-> <<y[Len(y)]>>,
                                c |-> <<>>, color |-> "red",
                                s |-> normal_dot_size * 6])
              /\ pc' = "show"
    /\ UNCHANGED <<num_of_walks, x, y, x_pos, y_pos, i, draws, steps, shown,
                   finished>>

\* Line 42: plt.show(), which returns when the window is closed.
Show ==
    /\ pc = "show"
    /\ shown' = TRUE
    /\ pc' = "done"
    /\ UNCHANGED <<num_of_walks, x, y, x_pos, y_pos, i, draws, steps,
                   scatters, finished>>

Next ==
    \/ ModuleInit(MaxN)
    \/ LoopStep
    \/ LoopExit
    \/ ScatterPath
    \/ ScatterStart
    \/ ScatterEnd
    \/ Show

Spec == Init /\ [][Next]_vars

(* The process ends (plt.show() returned, or the IndexError of line 40 was   *)
(* not caught) and the script is run again.  What the finished run recorded *)
(* is kept in the history variable finished; the new process starts at the  *)
(* first statement, where ModuleInit creates the globals afresh.            *)
Restart ==
    /\ pc \in {"done", "error"}
    /\ finished' = <<[N |-> num_of_walks, draws |-> draws, x |-> x, y |-> y]>>
    /\ pc' = "start"
    /\ UNCHANGED <<num_of_walks, x, y, x_pos, y_pos, i, draws, steps,
                   scatters, shown>>

NextRuns ==
    \/ ModuleInit(MaxNRuns)
    \/ LoopStep
    \/ LoopExit
    \/ ScatterPath
    \/ ScatterStart
    \/ ScatterEnd
    \/ Show
    \/ Restart

\* The script run any number of times, one run after the other.
SpecRuns == Init /\ [][NextRuns]_vars

----------------------------------------------------------------------------
(* Helpers of the properties.                                               *)

\* The generation loop has been left: the renderer's statements follow.
AfterLoop == {"scatter_path", "scatter_start", "scatter_end", "show", "done", "error"}

Abs(n) == IF n < 0 THEN -n ELSE n

Min(a, b) == IF a < b THEN a ELSE b

\* The sum of the first k drawn deltas on one axis (1: x_move, 2: y_move).
RECURSIVE SumMoves(_, _, _)
SumMoves(ds, axis, k) ==
    IF k = 0 THEN 0 ELSE SumMoves(ds, axis, k - 1) + ds[k][axis]

\* s is an initial part of t.
IsPrefix(s, t) == Len(s) <= Len(t) /\ SubSeq(t, 1, Len(s)) = s

\* The indices of the scatter calls that drew the whole path.
PathScatters == {k \in 1..Len(scatters) : scatters[k].color = "YlGnBu"}

----------------------------------------------------------------------------
(* C1: once the generation loop has finished, and at the moment the         *)
(* renderer reads the path, the x-history and the y-history each have       *)
(* length exactly num_of_walks.                                             *)
C1_PathLengthIsN ==
    /\ pc \in AfterLoop => Len(x) = num_of_walks /\ Len(y) = num_of_walks
    /\ \A k \in PathScatters :
         Len(scatters[k].xs) = num_of_walks /\ Len(scatters[k].ys) = num_of_walks

C1_Witness ==
    /\ pc = "scatter_start"
    /\ num_of_walks >= 2
    /\ Len(scatters[1].xs) = num_of_walks

(* C2: in every reachable state, consecutive recorded positions differ by   *)
(* at most 1 on each axis.                                                  *)
C2_UnitSteps ==
    /\ \A k \in 2..Len(x) : Abs(x[k] - x[k - 1]) <= 1
    /\ \A k \in 2..Len(y) : Abs(y[k] - y[k - 1]) <= 1

C2_Witness ==
    /\ pc = "loop"
    /\ Len(x) >= 2 /\ Len(y) >= 2
    /\ x[2] - x[1] = -1
    /\ y[2] - y[1] = 1

(* C3: the walk starts from the origin and records the position after the   *)
(* move: the first entry is (0,0) plus the first drawn delta, so it lies     *)
(* within 1 of the origin on each axis, and a run with num_of_walks = 1      *)
(* ends with exactly one entry.                                              *)
C3_FirstEntryIsFirstMove ==
    /\ Len(x) >= 1 =>
         /\ Len(draws) >= 1
         /\ x[1] = 0 + draws[1][1]
         /\ x[1] \in {-1, 0, 1}
    /\ Len(y) >= 1 =>
         /\ Len(draws) >= 1
         /\ y[1] = 0 + draws[1][2]
         /\ y[1] \in {-1, 0, 1}
    /\ (pc \in AfterLoop /\ num_of_walks = 1) => Len(x) = 1 /\ Len(y) = 1

C3_Witness ==
    /\ pc = "done"
    /\ num_of_walks = 1
    /\ x = <<-1>>
    /\ y = <<1>>

(* C4, as claimed: the start position (0,0) is the first entry of the       *)
(* recorded path.  Stated for the runs that take at least one step; a run   *)
(* with num_of_walks = 0 records nothing at all.                            *)
C4_StartIsFirstEntry ==
    (pc \in AfterLoop /\ num_of_walks >= 1) =>
        /\ Len(x) >= 1 /\ x[1] = 0
        /\ Len(y) >= 1 /\ y[1] = 0

(* C4, amended: the path holds one entry per step taken and none for the    *)
(* start; the origin is the first entry only when the first move is (0,0).  *)
C4_StartNotRecorded ==
    /\ Len(x) = steps
    /\ Len(y) = steps
    /\ steps >= 1 => ((x[1] = 0 /\ y[1] = 0) <=> draws[1] = <<0, 0>>)

C4_Witness ==
    /\ pc = "done"
    /\ steps >= 2
    /\ x[1] # 0
    /\ y[1] # 0

(* C5: determinism.  A run that has the same step count and receives the    *)
(* same draws as the previous run records the same histories; and while two *)
(* runs agree on their first k draws they agree on their first k entries.   *)
C5_Determinism ==
    \A r \in 1..Len(finished) :
      /\ (pc \in AfterLoop /\ finished[r].N = num_of_walks
                           /\ finished[r].draws = draws)
           => (finished[r].x = x /\ finished[r].y = y)
      /\ pc # "start" =>
           \A k \in 1..Min(Len(draws), Len(finished[r].draws)) :
             SubSeq(finished[r].draws, 1, k) = SubSeq(draws, 1, k)
               => /\ Len(x) >= k /\ x[k] = finished[r].x[k]
                  /\ Len(y) >= k /\ y[k] = finished[r].y[k]

C5_Witness ==
    /\ Len(finished) = 1
    /\ pc = "done"
    /\ num_of_walks = 2
    /\ finished[1].N = 2
    /\ finished[1].draws = draws
    /\ draws = <<(<<1, -1>>), (<<1, 0>>)>>
    /\ x = <<1, 2>>

(* C6: when the markers have been drawn, the start marker is at the fixed   *)
(* origin (0,0), which the first path element follows by one move, and the  *)
(* end marker is at the last path element, which is the generator's final   *)
(* current position.                                                        *)
C6_Markers ==
    pc \in {"show", "done"} =>
        /\ num_of_walks >= 1
        /\ Len(scatters) = 3
        /\ scatters[2].color = "green"
        /\ scatters[2].xs = <<0>> /\ scatters[2].ys = <<0>>
        /\ x[1] - 0 = draws[1][1] /\ y[1] - 0 = draws[1][2]
        /\ scatters[3].color = "red"
        /\ scatters[3].xs = <<x[num_of_walks]>>
        /\ scatters[3].ys = <<y[num_of_walks]>>
        /\ scatters[3].xs = <<x_pos>>
        /\ scatters[3].ys = <<y_pos>>

C6_Witness ==
    /\ pc = "show"
    /\ num_of_walks = 2
    /\ x = <<1, 2>>
    /\ y = <<-1, -1>>
    /\ scatters[3].xs = <<2>>
    /\ scatters[3].ys = <<-1>>

(* C7: the generator takes exactly num_of_walks steps; rendering begins     *)
(* only after the last of them, reads the path exactly once, and no step is *)
(* taken once rendering has begun.                                          *)
C7_ExactlyNStepsThenRender ==
    /\ pc = "loop" => /\ steps = i
                      /\ steps <= num_of_walks
                      /\ scatters = <<>>
    /\ pc \in AfterLoop => /\ steps = num_of_walks
                           /\ i = num_of_walks
                           /\ Len(draws) = num_of_walks
    /\ scatters # <<>> => pc \in AfterLoop \ {"scatter_path"}
    /\ pc \in AfterLoop =>
         Cardinality(PathScatters) = IF pc = "scatter_path" THEN 0 ELSE 1

C7_Witness ==
    /\ pc = "done"
    /\ num_of_walks = 3
    /\ steps = 3
    /\ Cardinality(PathScatters) = 1

(* C8: the path is append-only.  Every step of the program leaves the       *)
(* entries already recorded where they are; a call of random_walk() adds    *)
(* exactly one entry to each history; the rendering statements leave the    *)
(* histories and the current position unchanged.                            *)
C8_AppendOnly ==
    [][ /\ IsPrefix(x, x')
        /\ IsPrefix(y, y')
        /\ Len(x') - Len(x) = steps' - steps
        /\ Len(y') - Len(y) = steps' - steps
        /\ steps' - steps \in {0, 1}
        /\ Len(x') = Len(y')
        /\ pc \in AfterLoop => UNCHANGED <<x, y, x_pos, y_pos>> ]_vars

C8_Witness ==
    /\ pc = "done"
    /\ Len(x) = 3
    /\ Len(y) = 3
    /\ x[1] # x[2]
    /\ y[2] # y[3]

(* C9: after at least one step the current position is the last recorded    *)
(* entry, every entry is the sum of the deltas drawn up to it, and so the   *)
(* k-th entry (counted from 1) is at most k away from the origin per axis.  *)
C9_PrefixSums ==
    /\ steps >= 1 => /\ Len(x) = steps /\ x_pos = x[steps]
                     /\ Len(y) = steps /\ y_pos = y[steps]
    /\ \A k \in 1..Len(x) :
         /\ k <= Len(draws)
         /\ x[k] = SumMoves(draws, 1, k)
         /\ Abs(x[k]) <= k
    /\ \A k \in 1..Len(y) :
         /\ k <= Len(draws)
         /\ y[k] = SumMoves(draws, 2, k)
         /\ Abs(y[k]) <= k

C9_Witness ==
    /\ pc = "loop"
    /\ steps = 3
    /\ x = <<-1, -2, -3>>
    /\ y = <<1, 2, 3>>
    /\ x_pos = -3
    /\ y_pos = 3

(* C10: the read of the last path element succeeds exactly when             *)
(* num_of_walks >= 1.  With num_of_walks = 0 it fails after the start       *)
(* marker has been drawn, and the plot is never shown.                      *)
C10_EmptyPathFails ==
    /\ pc = "error" => /\ num_of_walks = 0
                       /\ x = <<>> /\ y = <<>>
                       /\ Len(scatters) = 2
                       /\ scatters[2].color = "green"
                       /\ ~shown
    /\ pc \in {"show", "done"} => /\ num_of_walks >= 1
                                  /\ Len(scatters) = 3
                                  /\ scatters[3].color = "red"
    /\ num_of_walks = 0 => ~shown /\ pc \notin {"show", "done"}

C10_Witness ==
    /\ pc = "error"
    /\ num_of_walks = 0
    /\ Len(scatters) = 2
    /\ ~shown

====
